---- MODULE Spec2Model ----
(***************************************************************************)
(* Bucket-policy access control of the noobaa-sa-ci harness.               *)
(*                                                                         *)
(* Strings that the code inspects by prefix are sequences of tokens:       *)
(* "s3:GetObject" is <<"s3:", "GetObject">>, "arn:aws:s3:::b1/objA" is      *)
(* <<"arn:aws:s3:::", "b1", "/", "objA">> and "*" is <<"*">>.  Concatenation *)
(* is \o and str.startswith(prefix) looks at the first token.              *)
(***************************************************************************)
EXTENDS Integers, Sequences, FiniteSets, TLC

VARIABLES
    recipe,        \* the builder calls that produced policy, one entry per statement
    policy,        \* BucketPolicyBuilder.policy.statements of the policy under evaluation
    evalReq,       \* the last request handed to the evaluator, or NoRequest
    evalDecision,  \* the decision of the evaluator on evalReq
    srv,           \* the server's bucket: [exists, objects, bucketPolicy]
    genCount,      \* names handed out by generate_unique_resource_name
    pc,            \* position of check_client_access_to_bucket_op
    chk,           \* its arguments: [client, op, obj_key]
    strategy,      \* the strategy instance's attributes
    response,      \* the response of do_operation
    pending,       \* the exception in flight, if any
    outcome,       \* what the check returned or raised
    trace,         \* strategy calls and S3 requests of the current check, in order
    probeCtx,      \* the bucket as it was when the probe was issued
    variant,       \* which BucketPolicyBuilder class the builder under test is
    calls,         \* the calls made on the builder under test: [method, value, raised]
    before,        \* policy.statements as they were before the last of these calls
    built,         \* the objects the build() calls returned, in call order
    objects,       \* the BucketPolicy objects made after the builder's own: their statements
    ops_pc,        \* where test_operation_access_policies is in its step 6
    tested_operation, \* the operation the policy of the test is about
    other_ops,     \* get_other_ops_for_permission_testing(tested_operation)
    overlap_ops,   \* BucketPolicy.get_ops_with_perm_overlap(tested_operation)
    op_index,      \* how many of other_ops the loop has checked
    retry_pc,      \* where retry_until_timeout is: "idle", "call", "except", "sleep", "returned", "raised"
    timeout,       \* its timeout argument
    interval,      \* its interval argument
    start_time,    \* its local start_time
    now,           \* time.time()
    elapsed_time,  \* its local elapsed_time
    attempts,      \* the calls of func so far: [began, ended, raised, value]
    retry_outcome, \* what retry_until_timeout returned or raised: [raised, value]
    ssh_instance,  \* SSHConnectionManager._instance: an index of ssh_managers, 0 for None
    ssh_managers,  \* the _conn of every SSHConnectionManager object made, 0 for None
    ssh_held,      \* the manager object the caller's last SSHConnectionManager() returned
    ssh_opened,    \* how many Connection objects have been opened
    ssh_closed,    \* the connections close() was called on
    ssh_reads      \* the values .connection returned since the last close_connection

evalVars == <<evalReq, evalDecision>>

checkVars == <<srv, genCount, pc, chk, strategy, response, pending, outcome, trace, probeCtx>>

builderVars == <<variant, calls, before, built, objects>>

opsVars == <<ops_pc, tested_operation, other_ops, overlap_ops, op_index>>

retryVars == <<retry_pc, timeout, interval, start_time, now, elapsed_time, attempts, retry_outcome>>

sshVars == <<ssh_instance, ssh_managers, ssh_held, ssh_opened, ssh_closed, ssh_reads>>

utilVars == <<opsVars, retryVars, sshVars>>

vars == <<recipe, policy, evalReq, evalDecision, srv, genCount, pc, chk, strategy,
          response, pending, outcome, trace, probeCtx, variant, calls, before, built, objects, opsVars, retryVars, sshVars>>

----------------------------------------------------------------------------
(* Bounds *)

MaxStatements == 2

MaxGenKeys == 2

MaxCalls == 3

MaxTimeout == 2

MaxInterval == 2

MaxDuration == 1

MaxManagers == 2

MaxConnections == 3

MaxReads == 3

----------------------------------------------------------------------------
(* BucketPolicy constants *)

ACTION_PREFIX == "s3:"

RESOURCE_PREFIX == "arn:aws:s3:::"

WILDCARD == <<"*">>

Bucket == "b1"

Owner == "owner"

OtherAccounts == {"acc1", "acc2"}

Accounts == {Owner} \cup OtherAccounts

ObjectKeys == {"objA", "objB"}

BUCKET_OPERATIONS ==
    {"ListBucket", "CreateBucket", "DeleteBucket", "HeadBucket",
     "PutBucketPolicy", "GetBucketPolicy", "DeleteBucketPolicy",
     "CreateMultiPartUpload", "ListBucketMultipartUploads", "AbortMultipartUpload"}

OBJECT_OPERATIONS ==
    {"GetObject", "PutObject", "DeleteObject", "HeadObject", "CopyObject"}

----------------------------------------------------------------------------
(* Python dict helpers *)

DictSet(d, k, v) == [x \in (DOMAIN d) \cup {k} |-> IF x = k THEN v ELSE d[x]]

DictGet(d, k, default) == IF k \in DOMAIN d THEN d[k] ELSE default

EmptyDict == [x \in {} |-> x]

----------------------------------------------------------------------------
(* BucketPolicyBuilder *)

StartsWith(value, prefix) ==
    \/ prefix = ""
    \/ Len(value) > 0 /\ value[1] = prefix

ActionProperties == {"Action", "NotAction"}

ResourceProperties == {"Resource", "NotResource"}

PrincipalProperties == {"Principal", "NotPrincipal"}

_assure_prefix_prepending(property, value) ==
    LET prefix == IF property \in ActionProperties THEN ACTION_PREFIX
                  ELSE IF property \in ResourceProperties THEN RESOURCE_PREFIX
                  ELSE ""
    IN IF prefix = "" THEN value ELSE <<prefix>> \o value

_assure_prefix(property, value) ==
    LET prefix == IF property \in ActionProperties THEN ACTION_PREFIX
                  ELSE IF property \in ResourceProperties THEN RESOURCE_PREFIX
                  ELSE ""
    IN IF StartsWith(value, prefix) THEN value ELSE <<prefix>> \o value

\* if not self.policy.statements: raise ValueError("No statement to update")
NoStatementToUpdate(statements) == statements = <<>>

\* The statements after _update_property_on_last_statement(property, value);
\* they are as they were when the call raises ValueError.
_update_property_on_last_statement_of_new_statement(statements, property, value) ==
    LET started == IF statements = <<>> THEN <<[Effect |-> "Allow"]>> ELSE statements
        n == Len(started)
        last == started[n]
        v == _assure_prefix(property, value)
        newLast ==
            IF property \in PrincipalProperties
            THEN LET d == DictGet(last, property, EmptyDict)
                 IN DictSet(last, property,
                            DictSet(d, "AWS", Append(DictGet(d, "AWS", <<>>), v)))
            ELSE DictSet(last, property, Append(DictGet(last, property, <<>>), v))
    IN [started EXCEPT ![n] = newLast]

_update_property_on_last_statement(statements, property, value) ==
    LET n == Len(statements)
        last == statements[n]
        v == _assure_prefix(property, value)
        newLast ==
            IF property \in PrincipalProperties
            THEN LET d == DictGet(last, property, EmptyDict)
                 IN DictSet(last, property,
                            DictSet(d, "AWS", Append(DictGet(d, "AWS", <<>>), v)))
            ELSE DictSet(last, property, Append(DictGet(last, property, <<>>), v))
    IN IF NoStatementToUpdate(statements) THEN statements
       ELSE [statements EXCEPT ![n] = newLast]

add_allow_statement(statements) == Append(statements, [Effect |-> "Allow"])

add_deny_statement_as_allow(statements) == Append(statements, [Effect |-> "Allow"])

add_deny_statement(statements) == Append(statements, [Effect |-> "Deny"])

add_principal_keeping_one(statements, principal) ==
    IF NoStatementToUpdate(statements) THEN statements
    ELSE [statements EXCEPT ![Len(statements)] =
            DictSet(@, "Principal", [AWS |-> <<principal>>])]

add_principal(statements, principal) ==
    _update_property_on_last_statement(statements, "Principal", principal)

add_not_principal_under_principal(statements, not_principal) ==
    _update_property_on_last_statement(statements, "Principal", not_principal)

add_not_principal(statements, not_principal) ==
    _update_property_on_last_statement(statements, "NotPrincipal", not_principal)

add_action_on_first_statement(statements, action) ==
    IF NoStatementToUpdate(statements) THEN statements
    ELSE [statements EXCEPT ![1] =
            DictSet(@, "Action",
                    Append(DictGet(@, "Action", <<>>), _assure_prefix("Action", action)))]

add_action(statements, action) ==
    _update_property_on_last_statement(statements, "Action", action)

add_not_action(statements, not_action) ==
    _update_property_on_last_statement(statements, "NotAction", not_action)

add_resource_replacing(statements, resource) ==
    [statements EXCEPT ![Len(statements)] =
        DictSet(@, "Resource", <<(<<RESOURCE_PREFIX, "*">>)>>)]

add_resource(statements, resource) ==
    _update_property_on_last_statement(statements, "Resource", resource)

add_not_resource_unprefixed(statements, not_resource) ==
    [statements EXCEPT ![Len(statements)] =
        DictSet(@, "NotResource", Append(DictGet(@, "NotResource", <<>>), not_resource))]

add_not_resource(statements, not_resource) ==
    _update_property_on_last_statement(statements, "NotResource", not_resource)

\* One statement built the way the tests build it: add_allow_statement or
\* add_deny_statement, then one call per entry of the recipe's value lists.
BuilderCall(statements, property, value) ==
    CASE property = "Principal" -> add_principal(statements, value)
      [] property = "NotPrincipal" -> add_not_principal(statements, value)
      [] property = "Action" -> add_action(statements, value)
      [] property = "NotAction" -> add_not_action(statements, value)
      [] property = "Resource" -> add_resource(statements, value)
      [] property = "NotResource" -> add_not_resource(statements, value)

RECURSIVE AddValues(_, _, _)
AddValues(statements, property, values) ==
    IF values = <<>> THEN statements
    ELSE AddValues(BuilderCall(statements, property, Head(values)), property, Tail(values))

BuildStatement(statements, r) ==
    LET s0 == IF r.effect = "Allow" THEN add_allow_statement(statements)
              ELSE add_deny_statement(statements)
        s1 == AddValues(s0, r.principal[1], r.principal[2])
        s2 == AddValues(s1, r.action[1], r.action[2])
    IN AddValues(s2, r.resource[1], r.resource[2])

RECURSIVE BuildPolicy(_)
BuildPolicy(rs) ==
    IF rs = <<>> THEN <<>>
    ELSE BuildStatement(BuildPolicy(SubSeq(rs, 1, Len(rs) - 1)), rs[Len(rs)])

\* BucketPolicy.default_template().statements
default_template_allowing ==
    add_resource(add_action(add_principal(add_allow_statement(<<>>), WILDCARD),
                            <<"GetObject">>), WILDCARD)

default_template ==
    add_resource(add_action(add_principal(add_deny_statement(<<>>), WILDCARD),
                            <<"GetObject">>), WILDCARD)

----------------------------------------------------------------------------
(* BucketPolicyBuilder of noobaa_sa/bucket_policy.py.  A property's value is
   a str or a list of str: [type, val] with val the one string or the items. *)

JsonStrInList(v) == [type |-> "list", val |-> <<v>>]

JsonStr(v) == [type |-> "str", val |-> <<v>>]

JsonList(items) == [type |-> "list", val |-> items]

noobaa_sa_assure_prefix(property, value) ==
    LET prefix == IF property = "Action" THEN ACTION_PREFIX
                  ELSE IF property = "Resource" THEN RESOURCE_PREFIX
                  ELSE ""
    IN IF StartsWith(value, prefix) THEN value ELSE <<prefix>> \o value

noobaa_sa_update_property_on_last_statement(statements, property, value) ==
    LET n == Len(statements)
        last == statements[n]
        v == noobaa_sa_assure_prefix(property, value)
        put(d, k) ==
            IF k \notin DOMAIN d THEN DictSet(d, k, JsonStr(v))
            ELSE IF d[k].type = "list" THEN DictSet(d, k, JsonList(Append(d[k].val, v)))
            ELSE DictSet(d, k, JsonList(<<d[k].val[1], v>>))
        newLast ==
            IF property \in PrincipalProperties
            THEN DictSet(last, "Principal", put(DictGet(last, "Principal", EmptyDict), "AWS"))
            ELSE put(last, property)
    IN IF NoStatementToUpdate(statements) THEN statements
       ELSE [statements EXCEPT ![n] = newLast]

for_principal(statements, principal) ==
    noobaa_sa_update_property_on_last_statement(statements, "Principal", principal)

not_for_principal(statements, not_principal) ==
    noobaa_sa_update_property_on_last_statement(statements, "NotPrincipal", not_principal)

on_action(statements, action) ==
    noobaa_sa_update_property_on_last_statement(statements, "Action", action)

not_for_action(statements, not_action) ==
    noobaa_sa_update_property_on_last_statement(statements, "NotAction", not_action)

with_resource(statements, resource) ==
    noobaa_sa_update_property_on_last_statement(statements, "Resource", resource)

not_on_resource(statements, not_resource) ==
    noobaa_sa_update_property_on_last_statement(statements, "NotResource", not_resource)

noobaa_sa_default_template ==
    with_resource(on_action(for_principal(add_deny_statement(<<>>), WILDCARD),
                            <<"GetObject">>), WILDCARD)

----------------------------------------------------------------------------
(* Policy evaluation (4.2 of the specification) *)

RECURSIVE GlobMatch(_, _)
GlobMatch(pat, s) ==
    IF pat = <<>> THEN s = <<>>
    ELSE IF pat[1] = "*"
         THEN GlobMatch(Tail(pat), s) \/ (s # <<>> /\ GlobMatch(pat, Tail(s)))
         ELSE s # <<>> /\ s[1] = pat[1] /\ GlobMatch(Tail(pat), Tail(s))

SeqRange(s) == {s[i] : i \in 1..Len(s)}

OperationAction(op) == <<ACTION_PREFIX, op>>

TargetResource(op, key) ==
    IF op \in OBJECT_OPERATIONS THEN <<RESOURCE_PREFIX, Bucket, "/", key>>
    ELSE <<RESOURCE_PREFIX, Bucket>>

PrincipalMatch(st, principal) ==
    \/ /\ "Principal" \in DOMAIN st
       /\ \E id \in SeqRange(st.Principal.AWS) : id = <<principal>> \/ id = WILDCARD
    \/ /\ "NotPrincipal" \in DOMAIN st
       /\ <<principal>> \notin SeqRange(st.NotPrincipal.AWS)

ActionMatch(st, op) ==
    \/ /\ "Action" \in DOMAIN st
       /\ \E pat \in SeqRange(st.Action) : GlobMatch(pat, OperationAction(op))
    \/ /\ "NotAction" \in DOMAIN st
       /\ \A pat \in SeqRange(st.NotAction) : ~GlobMatch(pat, OperationAction(op))

ResourceMatch(st, target) ==
    \/ /\ "Resource" \in DOMAIN st
       /\ \E pat \in SeqRange(st.Resource) : GlobMatch(pat, target)
    \/ /\ "NotResource" \in DOMAIN st
       /\ \A pat \in SeqRange(st.NotResource) : ~GlobMatch(pat, target)

StatementMatches(st, req) ==
    /\ PrincipalMatch(st, req.principal)
    /\ ActionMatch(st, req.op)
    /\ ResourceMatch(st, TargetResource(req.op, req.key))

DefaultDecision(principal) == IF principal = Owner THEN "Allow" ELSE "Deny"

Evaluate(statements, req) ==
    LET matching == {i \in 1..Len(statements) : StatementMatches(statements[i], req)}
    IN IF \E i \in matching : statements[i].Effect = "Deny" THEN "Deny"
       ELSE IF \E i \in matching : statements[i].Effect = "Allow" THEN "Allow"
       ELSE DefaultDecision(req.principal)

----------------------------------------------------------------------------
(* BucketPolicy serialisation *)

DEFAULT_VERSION == "2012-10-17"

\* A BucketPolicy object: BucketPolicy() with the statements given
NewBucketPolicy(statements) == [version |-> DEFAULT_VERSION, statements |-> statements]

as_dict(version, statements) == [Version |-> version, Statement |-> statements]

\* JSON text is a sequence of tokens: the punctuation marks [t |-> "{"],
\* "}", "[", "]", ":", "," and string literals.  A string literal carries
\* the Python str it quotes: [t |-> "str", s |-> x] for a str the model
\* keeps whole (keys, Version, Effect), [t |-> "str", w |-> x] for a str
\* the model keeps as its pieces (principals, actions, resources).
\* Whitespace (indent=4) is left out: json.loads skips it.
JsonMark(t) == <<[t |-> t]>>

JsonKey(x) == <<[t |-> "str", s |-> x]>>

JsonText(x) == <<[t |-> "str", w |-> x]>>

RECURSIVE JsonJoin(_)
\* the items of a JSON array or object, each already encoded, with commas
JsonJoin(encoded) ==
    IF encoded = <<>> THEN <<>>
    ELSE IF Len(encoded) = 1 THEN encoded[1]
    ELSE encoded[1] \o JsonMark(",") \o JsonJoin(Tail(encoded))

JsonArray(encoded) == JsonMark("[") \o JsonJoin(encoded) \o JsonMark("]")

JsonObject(encoded) == JsonMark("{") \o JsonJoin(encoded) \o JsonMark("}")

JsonMember(key, encodedValue) == JsonKey(key) \o JsonMark(":") \o encodedValue

\* The keys of a statement, in the order this model serialises them
StatementKeys ==
    <<"Effect", "Principal", "NotPrincipal", "Action", "NotAction", "Resource", "NotResource">>

SelectKeys(keys, d) == SelectSeq(keys, LAMBDA k : k \in DOMAIN d)

json_dumps_list(items) == JsonArray([i \in 1..Len(items) |-> JsonText(items[i])])

json_dumps_principal(d) ==
    LET keys == SelectKeys(<<"AWS">>, d)
    IN JsonObject([i \in 1..Len(keys) |-> JsonMember(keys[i], json_dumps_list(d[keys[i]]))])

json_dumps_statement(st) ==
    LET keys == SelectKeys(StatementKeys, st)
        value(k) == IF k = "Effect" THEN JsonKey(st[k])
                    ELSE IF k \in PrincipalProperties THEN json_dumps_principal(st[k])
                    ELSE json_dumps_list(st[k])
    IN JsonObject([i \in 1..Len(keys) |-> JsonMember(keys[i], value(keys[i]))])

\* json.dumps(obj) for obj the dictionary of as_dict()
json_dumps(obj) ==
    LET statements == obj.Statement
    IN JsonObject(<<JsonMember("Version", JsonKey(obj.Version)),
                    JsonMember("Statement",
                        JsonArray([i \in 1..Len(statements) |->
                                      json_dumps_statement(statements[i])]))>>)

RECURSIVE json_parse_value(_, _), json_parse_items(_, _, _), json_parse_members(_, _, _)
\* Parsers of the token sequence toks from position i on; each returns
\* [val, next]: the Python value read and the position after it.
json_parse_value(toks, i) ==
    LET tok == toks[i]
    IN IF tok.t = "[" THEN json_parse_items(toks, i + 1, <<>>)
       ELSE IF tok.t = "{" THEN json_parse_members(toks, i + 1, EmptyDict)
       ELSE [val |-> IF "s" \in DOMAIN tok THEN tok.s ELSE tok.w, next |-> i + 1]

json_parse_items(toks, i, acc) ==
    IF toks[i].t = "]" THEN [val |-> acc, next |-> i + 1]
    ELSE IF toks[i].t = "," THEN json_parse_items(toks, i + 1, acc)
    ELSE LET item == json_parse_value(toks, i)
         IN json_parse_items(toks, item.next, Append(acc, item.val))

json_parse_members(toks, i, acc) ==
    IF toks[i].t = "}" THEN [val |-> acc, next |-> i + 1]
    ELSE IF toks[i].t = "," THEN json_parse_members(toks, i + 1, acc)
    ELSE LET member == json_parse_value(toks, i + 2)
         IN json_parse_members(toks, member.next, DictSet(acc, toks[i].s, member.val))

json_loads(json_str) == json_parse_value(json_str, 1).val

\* str(policy)
BucketPolicyStr(policy_object) ==
    json_dumps(as_dict(policy_object.version, policy_object.statements))

\* str(policy) of the policy a builder holds
PolicyToStr(statements) == BucketPolicyStr(NewBucketPolicy(statements))

from_json_of_statements(json_str) ==
    LET data == json_loads(json_str)
    IN [version |-> DictGet(data, "Version", DEFAULT_VERSION),
        statements |-> DictGet(data, "Statements", <<>>)]

\* BucketPolicy.from_json(json_str)
from_json(json_str) ==
    LET data == json_loads(json_str)
    IN [version |-> DictGet(data, "Version", DEFAULT_VERSION),
        statements |-> DictGet(data, "Statement", <<>>)]

----------------------------------------------------------------------------
(* The S3 server behind the client (external collaborator, 6 of the specification) *)

NoDoc == <<>>

NoPolicy == [present |-> FALSE, doc |-> NoDoc]

HeadMethods == {"head_object"}

MethodOperation(method) ==
    CASE method = "put_object" -> "PutObject"
      [] method = "get_object" -> "GetObject"
      [] method = "head_object" -> "HeadObject"
      [] method = "delete_object" -> "DeleteObject"
      [] method = "copy_object" -> "CopyObject"
      [] method = "list_objects" -> "ListBucket"
      [] method = "delete_bucket" -> "DeleteBucket"
      [] method = "put_bucket_policy" -> "PutBucketPolicy"
      [] method = "get_bucket_policy" -> "GetBucketPolicy"
      [] method = "delete_bucket_policy" -> "DeleteBucketPolicy"

\* The error a ClientError carries: a HEAD response has no body, so botocore
\* reports the HTTP status as the error code string.
ErrorCodeFor(method, name, status) == IF method \in HeadMethods THEN status ELSE name

Ok(status) == [ok |-> TRUE, status |-> status, errcode |-> ""]

Err(errcode) == [ok |-> FALSE, status |-> 0, errcode |-> errcode]

\* The server's answer to one request and the state it leaves.  s is
\* [exists, objects, bucketPolicy]; args is [key, src, doc].
ServerExec(s, account, method, args) ==
    LET op == MethodOperation(method)
        req == [principal |-> account, op |-> op, key |-> args.key]
        statements == IF s.bucketPolicy.present
                      THEN from_json(s.bucketPolicy.doc).statements ELSE <<>>
        same(raw) == [raw |-> raw, srv |-> s, policy |-> NoDoc, hasPolicy |-> FALSE]
    IN IF ~s.exists
         THEN same(Err(ErrorCodeFor(method, "NoSuchBucket", "404")))
       ELSE IF Evaluate(statements, req) = "Deny"
         THEN same(Err(ErrorCodeFor(method, "AccessDenied", "403")))
       ELSE CASE op \in {"GetObject", "HeadObject"} ->
                   IF args.key \in s.objects THEN same(Ok(200))
                   ELSE same(Err(ErrorCodeFor(method, "NoSuchKey", "404")))
              [] op = "PutObject" ->
                   [same(Ok(200)) EXCEPT !.srv.objects = @ \cup {args.key}]
              [] op = "DeleteObject" ->
                   [same(Ok(204)) EXCEPT !.srv.objects = @ \ {args.key}]
              [] op = "CopyObject" ->
                   IF args.src \in s.objects
                   THEN [same(Ok(200)) EXCEPT !.srv.objects = @ \cup {args.key}]
                   ELSE same(Err("NoSuchKey"))
              [] op = "ListBucket" -> same(Ok(200))
              [] op = "DeleteBucket" ->
                   IF s.objects # {} THEN same(Err("BucketNotEmpty"))
                   ELSE [same(Ok(204)) EXCEPT !.srv.exists = FALSE,
                                              !.srv.bucketPolicy = NoPolicy]
              [] op = "PutBucketPolicy" ->
                   [same(Ok(200)) EXCEPT
                        !.srv.bucketPolicy = [present |-> TRUE, doc |-> args.doc]]
              [] op = "GetBucketPolicy" ->
                   IF s.bucketPolicy.present
                   THEN [same(Ok(200)) EXCEPT !.policy = s.bucketPolicy.doc,
                                              !.hasPolicy = TRUE]
                   ELSE same(Err("NoSuchBucketPolicy"))
              [] op = "DeleteBucketPolicy" ->
                   [same(Ok(204)) EXCEPT !.srv.bucketPolicy = NoPolicy]

----------------------------------------------------------------------------
(* S3Client *)

\* A response Code is an int or a str: [num, name] with name = "" for an int
\* and num = -1 for a str.
IntCode(n) == [num |-> n, name |-> ""]

StrCode(name) == [num |-> -1, name |-> name]

NoCode == StrCode("")

\* int(s) of the strings the server sends: the decimal numerals
NumeralValue == [s \in {"403", "404"} |-> IF s = "403" THEN 403 ELSE 404]

IsNumeral(s) == s \in DOMAIN NumeralValue

\* _exec_boto3_method: Code is the HTTP status of a response, or the error code
\* of a ClientError, turned into an int when int() accepts it.
_exec_boto3_method_keeping_str(raw) ==
    IF raw.ok THEN IntCode(raw.status) ELSE StrCode(raw.errcode)

_exec_boto3_method(raw) ==
    LET code == IF raw.ok THEN IntCode(raw.status) ELSE StrCode(raw.errcode)
    IN IF code.name # "" /\ IsNumeral(code.name)
       THEN IntCode(NumeralValue[code.name])
       ELSE code

----------------------------------------------------------------------------
(* Access validation strategies *)

TEST_OBJ_PREFIX == "test-obj-"

\* generate_unique_resource_name(prefix): the n-th name handed out
generate_unique_resource_name(prefix, n) == prefix \o ToString(n)

KeyedStrategies == {"GetObject", "DeleteObject", "HeadObject"}

PolicyStrategies == {"PutBucketPolicy", "GetBucketPolicy", "DeleteBucketPolicy"}

SupportedOperations ==
    KeyedStrategies \cup PolicyStrategies
    \cup {"PutObject", "CopyObject", "ListBucket", "DeleteBucket"}

expected_success_code(op) ==
    IF op \in {"DeleteObject", "DeleteBucket", "DeleteBucketPolicy"} THEN 204 ELSE 200

\* expected_success_code of the earlier strategy classes, by operation: the
\* ones of tests/bucket_policies/access_validation_strategies.py ...
tests_expected_success_code ==
    [GetObject |-> 200, PutObject |-> 200, DeleteObject |-> 204, ListBucket |-> 200,
     DeleteBucket |-> 204, PutBucketPolicy |-> 204, GetBucketPolicy |-> 200,
     DeleteBucketPolicy |-> 204]

\* ... and the ones of tests/bucket_policies/s3_operation_access_tester.py
tester_expected_success_code ==
    [GetObject |-> 200, PutObject |-> 200, ListBucket |-> 200, DeleteObject |-> 204,
     DeleteBucket |-> 204]

\* test_policy of PutBucketPolicyValidationStrategy.do_operation
PutBucketPolicyTestPolicy ==
    add_resource(add_action(add_principal(add_allow_statement(<<>>), WILDCARD),
                            <<"PutBucketPolicy">>), WILDCARD)

NoArgs == [key |-> "", src |-> "", doc |-> NoDoc]

NoStrategy ==
    [class |-> "", admin_client |-> "", bucket |-> "",
     test_obj_key |-> "", has_original |-> FALSE, original_policy |-> NoDoc]

NoError == [kind |-> "", code |-> NoCode, operation |-> ""]

Raised(kind) == [kind |-> kind, code |-> NoCode, operation |-> ""]

Call(name) == [kind |-> "call", name |-> name, via |-> "", method |-> "", key |-> ""]

Request(phase, via, method) ==
    [kind |-> "request", name |-> phase, via |-> via, method |-> method, key |-> ""]

\* A request that names an object key
KeyedRequest(phase, via, method, key) == [Request(phase, via, method) EXCEPT !.key = key]

\* How many fresh names setup and do_operation of a check ask for
FreshNeeded(op, obj_key) ==
    CASE op \in KeyedStrategies -> IF obj_key = "" THEN 1 ELSE 0
      [] op = "CopyObject" -> 2
      [] op \in {"ListBucket", "PutObject"} -> 1
      [] OTHER -> 0

\* The account behind a client reference of the current check: the admin
\* client is the one the strategy was constructed with, s3_client is the
\* tested client
AccountOf(via) == IF via = "admin_client" THEN strategy.admin_client ELSE chk.client

\* The client reference a strategy's setup, do_operation and cleanup send
\* their requests through
SetupClientTestedForCopy(op) == IF op = "CopyObject" THEN "s3_client" ELSE "admin_client"

SetupClient(op) == "admin_client"

ProbeClient(op) == "s3_client"

CleanupClient(op) == "admin_client"

\* strategy.setup(**setup_kwargs): [strategy, srv, gen, trace, error]
StrategySetup(op, obj_key) ==
    LET fresh == generate_unique_resource_name(TEST_OBJ_PREFIX, genCount + 1)
        put == ServerExec(srv, AccountOf(SetupClient(op)), "put_object", [NoArgs EXCEPT !.key = fresh])
        got == ServerExec(srv, AccountOf(SetupClient(op)), "get_bucket_policy", NoArgs)
        base == [strategy |-> strategy, srv |-> srv, gen |-> genCount,
                 requests |-> <<>>, error |-> NoError]
    IN CASE op \in KeyedStrategies /\ obj_key # "" ->
                [base EXCEPT !.strategy.test_obj_key = obj_key]
         [] op \in KeyedStrategies /\ obj_key = "" ->
                [base EXCEPT !.strategy.test_obj_key = fresh,
                             !.srv = put.srv, !.gen = genCount + 1,
                             !.requests = <<KeyedRequest("setup", SetupClient(op), "put_object", fresh)>>]
         [] op = "CopyObject" ->
                [base EXCEPT !.strategy.test_obj_key = fresh,
                             !.srv = put.srv, !.gen = genCount + 1,
                             !.requests = <<KeyedRequest("setup", SetupClient(op), "put_object", fresh)>>]
         [] op = "ListBucket" ->
                [base EXCEPT !.srv = put.srv, !.gen = genCount + 1,
                             !.requests = <<KeyedRequest("setup", SetupClient(op), "put_object", fresh)>>]
         [] op \in PolicyStrategies ->
                \* response.get("Policy") is None unless the policy was returned,
                \* and json.loads(None) raises TypeError
                IF got.hasPolicy
                THEN [base EXCEPT !.strategy.has_original = TRUE,
                                  !.strategy.original_policy =
                                      BucketPolicyStr(from_json(got.policy)),
                                  !.srv = got.srv,
                                  !.requests =
                                      <<Request("setup", SetupClient(op), "get_bucket_policy")>>]
                ELSE [base EXCEPT !.srv = got.srv,
                                  !.requests =
                                      <<Request("setup", SetupClient(op), "get_bucket_policy")>>,
                                  !.error = Raised("TypeError")]
         [] OTHER -> base

\* The method and arguments of strategy.do_operation(s3_client, bucket)
ProbeMethod(op) ==
    CASE op = "GetObject" -> "get_object"
      [] op = "HeadObject" -> "head_object"
      [] op = "DeleteObject" -> "delete_object"
      [] op = "PutObject" -> "put_object"
      [] op = "CopyObject" -> "copy_object"
      [] op = "ListBucket" -> "list_objects"
      [] op = "DeleteBucket" -> "delete_bucket"
      [] op = "PutBucketPolicy" -> "put_bucket_policy"
      [] op = "GetBucketPolicy" -> "get_bucket_policy"
      [] op = "DeleteBucketPolicy" -> "delete_bucket_policy"

ProbeArgsOfFreshKey(op) ==
    LET fresh == generate_unique_resource_name(TEST_OBJ_PREFIX, genCount + 1)
    IN CASE op \in KeyedStrategies \cup {"PutObject"} -> [NoArgs EXCEPT !.key = fresh]
         [] op = "CopyObject" ->
                [NoArgs EXCEPT !.key = fresh, !.src = strategy.test_obj_key]
         [] op = "PutBucketPolicy" ->
                [NoArgs EXCEPT !.doc = PolicyToStr(PutBucketPolicyTestPolicy)]
         [] OTHER -> NoArgs

ProbeArgs(op) ==
    LET fresh == generate_unique_resource_name(TEST_OBJ_PREFIX, genCount + 1)
    IN CASE op \in KeyedStrategies -> [NoArgs EXCEPT !.key = strategy.test_obj_key]
         [] op = "PutObject" -> [NoArgs EXCEPT !.key = fresh]
         [] op = "CopyObject" ->
                [NoArgs EXCEPT !.key = fresh, !.src = strategy.test_obj_key]
         [] op = "PutBucketPolicy" ->
                [NoArgs EXCEPT !.doc = PolicyToStr(PutBucketPolicyTestPolicy)]
         [] OTHER -> NoArgs

\* strategy.cleanup(): [srv, requests, error]
StrategyCleanup(op) ==
    LET put == ServerExec(srv, AccountOf(CleanupClient(op)), "put_bucket_policy",
                          [NoArgs EXCEPT !.doc = strategy.original_policy])
        base == [srv |-> srv, requests |-> <<>>, error |-> NoError]
    IN IF op \in PolicyStrategies
       THEN IF ~strategy.has_original
            THEN [base EXCEPT !.error = Raised("AttributeError")]
            ELSE [base EXCEPT !.srv = put.srv,
                              !.requests =
                                  <<Request("cleanup", CleanupClient(op), "put_bucket_policy")>>]
       ELSE base

----------------------------------------------------------------------------
(* AccessValidationStrategyFactory *)

\* An operation name cut before each of its uppercase letters but the first
CamelWords ==
    [GetObject |-> <<"Get", "Object">>, PutObject |-> <<"Put", "Object">>,
     DeleteObject |-> <<"Delete", "Object">>, HeadObject |-> <<"Head", "Object">>,
     CopyObject |-> <<"Copy", "Object">>, ListBucket |-> <<"List", "Bucket">>,
     DeleteBucket |-> <<"Delete", "Bucket">>, HeadBucket |-> <<"Head", "Bucket">>,
     PutBucketPolicy |-> <<"Put", "Bucket", "Policy">>,
     GetBucketPolicy |-> <<"Get", "Bucket", "Policy">>,
     DeleteBucketPolicy |-> <<"Delete", "Bucket", "Policy">>,
     getObject |-> <<"get", "Object">>]

\* str.lower()
LowerCase ==
    [Get |-> "get", Put |-> "put", Delete |-> "delete", Head |-> "head",
     Copy |-> "copy", List |-> "list", Object |-> "object", Bucket |-> "bucket",
     Policy |-> "policy", get |-> "get"]

\* camel_to_snake(s): an underscore before every uppercase letter but the
\* first, every letter lowered
RECURSIVE SnakeJoin(_)
SnakeJoin(words) ==
    IF Len(words) = 1 THEN LowerCase[words[1]]
    ELSE SnakeJoin(SubSeq(words, 1, Len(words) - 1)) \o "_" \o LowerCase[words[Len(words)]]

camel_to_snake(s) == SnakeJoin(CamelWords[s])

\* <<module, class>> of the strategy classes of the package
\* access_validation_strategies that are in the source tree ...
StrategyClassesInSource ==
    {<<"copy_object_validation_strategy", "CopyObjectValidationStrategy">>,
     <<"delete_bucket_validation_strategy", "DeleteBucketValidationStrategy">>,
     <<"get_bucket_policy_validation_strategy", "GetBucketPolicyValidationStrategy">>,
     <<"head_object_validation_strategy", "HeadObjectValidationStrategy">>,
     <<"list_bucket_validation_strategy", "ListBucketValidationStrategy">>,
     <<"put_bucket_policy_validation_strategy", "PutBucketPolicyValidationStrategy">>,
     <<"put_object_validation_strategy", "PutObjectValidationStrategy">>,
     <<"policy_operation_validation_strategy", "PolicyOperationValidationStrategy">>}

\* ... and of the ones the package holds besides (3 of the specification)
StrategyClassesBesides ==
    {<<"get_object_validation_strategy", "GetObjectValidationStrategy">>,
     <<"delete_object_validation_strategy", "DeleteObjectValidationStrategy">>,
     <<"delete_bucket_policy_validation_strategy", "DeleteBucketPolicyValidationStrategy">>}

StrategyClasses == StrategyClassesInSource \cup StrategyClassesBesides

\* raise NotImplementedError(...): both messages hold the operation's name,
\* the second one inside the class name
NotImplementedError(operation) ==
    [kind |-> "NotImplementedError", code |-> NoCode, operation |-> operation]

\* create_strategy_for_operation(admin_client, bucket, operation):
\* [instance, error]
create_strategy_for_operation_without_arguments(admin_client, bucket, operation) ==
    LET module == camel_to_snake(operation) \o "_validation_strategy"
        class_name == operation \o "ValidationStrategy"
    IN IF <<module, class_name>> \notin StrategyClasses
       THEN [instance |-> NoStrategy, error |-> NotImplementedError(operation)]
       ELSE [instance |-> [NoStrategy EXCEPT !.class = class_name], error |-> NoError]

create_strategy_for_operation_unnamed_error(admin_client, bucket, operation) ==
    LET module == camel_to_snake(operation) \o "_validation_strategy"
        class_name == operation \o "ValidationStrategy"
    IN IF <<module, class_name>> \notin StrategyClasses
       THEN [instance |-> NoStrategy, error |-> NotImplementedError("")]
       ELSE [instance |-> [NoStrategy EXCEPT !.class = class_name,
                                             !.admin_client = admin_client,
                                             !.bucket = bucket],
             error |-> NoError]

create_strategy_for_operation(admin_client, bucket, operation) ==
    LET module == camel_to_snake(operation) \o "_validation_strategy"
        class_name == operation \o "ValidationStrategy"
    IN IF module \notin {c[1] : c \in StrategyClasses}
       THEN [instance |-> NoStrategy, error |-> NotImplementedError(operation)]
       ELSE IF <<module, class_name>> \notin StrategyClasses
       THEN [instance |-> NoStrategy, error |-> NotImplementedError(operation)]
       ELSE [instance |-> [NoStrategy EXCEPT !.class = class_name,
                                             !.admin_client = admin_client,
                                             !.bucket = bucket],
             error |-> NoError]

----------------------------------------------------------------------------
(* S3OperationAccessTester.check_client_access_to_bucket_op *)

NoCheck == [client |-> "", op |-> "", obj_key |-> ""]

\* What the boto3 method gave before Code was added: nothing yet
NoRaw == [ok |-> FALSE, status |-> 0, errcode |-> ""]

NoResponse == [present |-> FALSE, Code |-> NoCode, raw |-> NoRaw]

NoOutcome == [state |-> "none", result |-> FALSE, error |-> NoError]

Returned(b) == [state |-> "returned", result |-> b, error |-> NoError]

RaisedOutcome(e) == [state |-> "raised", result |-> FALSE, error |-> e]

UnexpectedResponseCode(code, operation) ==
    [kind |-> "UnexpectedResponseCode", code |-> code, operation |-> operation]

\* Step 5: the outcome for a response Code
InterpretUnexpectedAsDenied(code, op) ==
    IF code = IntCode(expected_success_code(op)) THEN Returned(TRUE)
    ELSE Returned(FALSE)

InterpretLegacy(code, op) ==
    IF code = IntCode(expected_success_code(op)) THEN Returned(TRUE)
    ELSE IF code = StrCode("AccessDenied") THEN Returned(FALSE)
    ELSE RaisedOutcome([kind |-> "Exception", code |-> code, operation |-> ""])

Interpret(code, op) ==
    IF code = IntCode(expected_success_code(op)) THEN Returned(TRUE)
    ELSE IF code = StrCode("AccessDenied") \/ code = IntCode(403) THEN Returned(FALSE)
    ELSE RaisedOutcome(UnexpectedResponseCode(code, op))

\* Step 1: the factory resolves the strategy, or raises NotImplementedError
StartCheck(client, op, obj_key) ==
    /\ pc = "idle"
    /\ genCount + FreshNeeded(op, obj_key) <= MaxGenKeys
    /\ chk' = [client |-> client, op |-> op, obj_key |-> obj_key]
    /\ LET r == create_strategy_for_operation(Owner, Bucket, op)
       IN /\ strategy' = r.instance
          /\ IF r.error = NoError
             THEN pc' = "setup" /\ outcome' = NoOutcome
             ELSE pc' = "done" /\ outcome' = RaisedOutcome(r.error)
    /\ UNCHANGED <<utilVars, builderVars, recipe, policy, evalVars, srv, genCount, response,
                   pending, trace, probeCtx>>

\* Step 2: strategy.setup(**setup_kwargs)
SetupStep ==
    /\ pc = "setup"
    /\ LET r == StrategySetup(chk.op, chk.obj_key)
       IN /\ strategy' = r.strategy
          /\ srv' = r.srv
          /\ genCount' = r.gen
          /\ trace' = trace \o <<Call("setup")>> \o r.requests
          /\ pending' = r.error
          /\ pc' = IF r.error = NoError THEN "probe" ELSE "cleanup"
    /\ UNCHANGED <<utilVars, builderVars, recipe, policy, evalVars, chk, response, outcome, probeCtx>>

\* Where the check goes after do_operation returned or raised: cleanup runs
\* on every exit path
AfterProbeSkippingCleanupOnError(raised) == IF raised THEN "interpret" ELSE "cleanup"

AfterProbe(raised) == "cleanup"

\* Step 3: response = strategy.do_operation(s3_client, bucket); the call raises
\* when the transport fails (an exception that is not a ClientError)
DoOperationStep ==
    /\ pc = "probe"
    /\ LET method == ProbeMethod(chk.op)
           r == ServerExec(srv, AccountOf(ProbeClient(chk.op)), method, ProbeArgs(chk.op))
       IN /\ trace' = trace \o <<Call("do_operation"),
                                 KeyedRequest("probe", ProbeClient(chk.op), method,
                                              ProbeArgs(chk.op).key)>>
          /\ probeCtx' = srv
          /\ genCount' = genCount + (IF chk.op \in {"PutObject", "CopyObject"} THEN 1 ELSE 0)
          /\ \/ /\ srv' = r.srv
                /\ response' = [present |-> TRUE, Code |-> _exec_boto3_method(r.raw),
                                raw |-> r.raw]
                /\ pending' = NoError
                /\ pc' = AfterProbe(FALSE)
             \/ /\ srv' = srv
                /\ response' = NoResponse
                /\ pending' = Raised("ConnectionError")
                /\ pc' = AfterProbe(TRUE)
    /\ UNCHANGED <<utilVars, builderVars, recipe, policy, evalVars, chk, strategy, outcome>>

\* Step 4: strategy.cleanup(), on every exit path
CleanupStep ==
    /\ pc = "cleanup"
    /\ LET r == StrategyCleanup(chk.op)
       IN /\ srv' = r.srv
          /\ trace' = trace \o <<Call("cleanup")>> \o r.requests
          /\ pending' = IF r.error # NoError THEN r.error ELSE pending
    /\ pc' = "interpret"
    /\ UNCHANGED <<utilVars, builderVars, recipe, policy, evalVars, genCount, chk, strategy, response,
                   outcome, probeCtx>>

\* Step 5: the pending exception propagates, or the Code is interpreted
InterpretStep ==
    /\ pc = "interpret"
    /\ outcome' = IF pending # NoError THEN RaisedOutcome(pending)
                  ELSE Interpret(response.Code, chk.op)
    /\ pc' = "done"
    /\ UNCHANGED <<utilVars, builderVars, recipe, policy, evalVars, srv, genCount, chk, strategy, response,
                   pending, trace, probeCtx>>

\* The test goes on after the check
Finish ==
    /\ pc = "done"
    /\ pc' = "idle"
    /\ chk' = NoCheck /\ strategy' = NoStrategy /\ response' = NoResponse
    /\ pending' = NoError /\ outcome' = NoOutcome /\ trace' = <<>>
    /\ probeCtx' = srv
    /\ UNCHANGED <<utilVars, builderVars, recipe, policy, evalVars, srv, genCount>>

----------------------------------------------------------------------------
(* Test scenarios around the access check *)

StatementRecipe(effect, pprop, pvals, aprop, avals, rprop, rvals) ==
    [effect |-> effect, principal |-> <<pprop, pvals>>,
     action |-> <<aprop, avals>>, resource |-> <<rprop, rvals>>]

BucketObjects == <<Bucket, "/", "*">>

ObjectPath(key) == <<Bucket, "/", key>>

\* test_operation_access_policies: the policy for (tested_op, access_effect)
OperationAccessTestedOps ==
    {"GetObject", "PutObject", "DeleteObject", "ListBucket",
     "PutBucketPolicy", "GetBucketPolicy"}

OperationAccessRecipe(tested_op, access_effect) ==
    LET tested == StatementRecipe(access_effect, "Principal", <<WILDCARD>>,
                      "Action", <<(<<tested_op>>)>>,
                      "Resource", <<IF tested_op \in BUCKET_OPERATIONS
                                    THEN <<Bucket>> ELSE BucketObjects>>)
        allowAll == StatementRecipe("Allow", "Principal", <<WILDCARD>>,
                      "Action", <<WILDCARD>>, "Resource", <<WILDCARD, BucketObjects>>)
    IN IF access_effect = "Deny" THEN <<allowAll, tested>> ELSE <<tested>>

ScenarioRecipes ==
    {<<>>} \cup {OperationAccessRecipe(o, e) :
                    o \in OperationAccessTestedOps, e \in {"Allow", "Deny"}}

TestedClients == {Owner, "acc1"}

CheckedOperations == SupportedOperations \cup {"HeadBucket", "getObject"}

CheckArguments ==
    {<<c, o, "">> : c \in TestedClients, o \in CheckedOperations}
    \cup {<<c, o, k>> : c \in TestedClients, o \in KeyedStrategies, k \in ObjectKeys}

\* Nothing has been started: the test's step 6, retry_until_timeout, the SSH manager
OpsIdle ==
    /\ ops_pc = "idle"
    /\ tested_operation = ""
    /\ other_ops = <<>>
    /\ overlap_ops = <<>>
    /\ op_index = 0

NoAttemptOutcome == [raised |-> "", value |-> ""]

RetryIdle ==
    /\ retry_pc = "idle"
    /\ timeout = 0
    /\ interval = 0
    /\ start_time = 0
    /\ now = 0
    /\ elapsed_time = 0
    /\ attempts = <<>>
    /\ retry_outcome = NoAttemptOutcome

SshIdle ==
    /\ ssh_instance = 0
    /\ ssh_managers = <<>>
    /\ ssh_held = 0
    /\ ssh_opened = 0
    /\ ssh_closed = {}
    /\ ssh_reads = <<>>

UtilIdle == OpsIdle /\ RetryIdle /\ SshIdle

InitAccess ==
    /\ recipe \in ScenarioRecipes
    /\ policy = BuildPolicy(recipe)
    /\ evalReq = [principal |-> "", op |-> "", key |-> ""]
    /\ evalDecision = "None"
    /\ srv = [exists |-> TRUE, objects |-> {}, bucketPolicy |-> NoPolicy]
    /\ genCount = 0
    /\ pc = "idle"
    /\ chk = NoCheck
    /\ strategy = NoStrategy
    /\ response = NoResponse
    /\ pending = NoError
    /\ outcome = NoOutcome
    /\ trace = <<>>
    /\ probeCtx = srv
    /\ variant = "framework"
    /\ calls = <<>>
    /\ built = <<>>
    /\ objects = <<>>
    /\ UtilIdle
    /\ before = <<>>

\* c_scope_s3client.put_bucket_policy(bucket, str(policy))
AdminPutBucketPolicy ==
    /\ pc = "idle"
    /\ srv' = ServerExec(srv, Owner, "put_bucket_policy",
                         [NoArgs EXCEPT !.doc = PolicyToStr(policy)]).srv
    /\ probeCtx' = srv'
    /\ UNCHANGED <<utilVars, builderVars, recipe, policy, evalVars, genCount, pc, chk, strategy, response,
                   pending, outcome, trace>>

\* c_scope_s3client.put_random_objects(bucket, 2)
PutRandomObjects ==
    /\ pc = "idle"
    /\ srv.exists
    /\ srv' = [srv EXCEPT !.objects = @ \cup ObjectKeys]
    /\ probeCtx' = srv'
    /\ UNCHANGED <<utilVars, builderVars, recipe, policy, evalVars, genCount, pc, chk, strategy, response,
                   pending, outcome, trace>>

NextAccess ==
    \/ \E a \in CheckArguments : StartCheck(a[1], a[2], a[3])
    \/ SetupStep
    \/ DoOperationStep
    \/ CleanupStep
    \/ InterpretStep
    \/ Finish
    \/ AdminPutBucketPolicy
    \/ PutRandomObjects

SpecAccess == InitAccess /\ [][NextAccess]_vars

----------------------------------------------------------------------------
(* Evaluation of built policies *)

PrincipalOptions ==
    {<<"Principal", <<WILDCARD>>>>,
     <<"Principal", <<(<<"acc1">>)>>>>,
     <<"NotPrincipal", <<(<<"acc1">>)>>>>}

ActionOptions ==
    {<<"Action", <<WILDCARD>>>>,
     <<"Action", <<(<<"GetObject">>)>>>>,
     <<"NotAction", <<(<<"DeleteObject">>)>>>>}

ResourceOptions ==
    {<<"Resource", <<(<<Bucket, "/", "*">>)>>>>,
     <<"Resource", <<(<<Bucket, "/", "objA">>)>>>>,
     <<"NotResource", <<(<<Bucket, "/", "objA">>)>>>>}

StatementRecipes ==
    [effect : {"Allow", "Deny"}, principal : PrincipalOptions,
     action : ActionOptions, resource : ResourceOptions]

EvalOperations == {"GetObject", "DeleteObject", "ListBucket"}

NoRequest == [principal |-> "", op |-> "", key |-> ""]

Requests ==
    {[principal |-> p, op |-> o, key |-> k] :
        p \in Accounts, o \in EvalOperations \cap OBJECT_OPERATIONS, k \in ObjectKeys}
    \cup {[principal |-> p, op |-> o, key |-> ""] :
        p \in Accounts, o \in EvalOperations \cap BUCKET_OPERATIONS}

InitEval ==
    /\ \E n \in 0..MaxStatements : recipe \in [1..n -> StatementRecipes]
    /\ policy = BuildPolicy(recipe)
    /\ evalReq = NoRequest
    /\ evalDecision = "None"
    /\ srv = [exists |-> TRUE, objects |-> {}, bucketPolicy |-> NoPolicy]
    /\ genCount = 0
    /\ pc = "idle"
    /\ chk = NoCheck
    /\ strategy = NoStrategy
    /\ response = NoResponse
    /\ pending = NoError
    /\ outcome = NoOutcome
    /\ trace = <<>>
    /\ probeCtx = srv
    /\ variant = "framework"
    /\ calls = <<>>
    /\ built = <<>>
    /\ objects = <<>>
    /\ UtilIdle
    /\ before = <<>>

EvaluateRequest(req) ==
    /\ evalReq = NoRequest
    /\ evalReq' = req
    /\ evalDecision' = Evaluate(policy, req)
    /\ UNCHANGED <<utilVars, builderVars, recipe, policy, checkVars>>

NextEval == \E req \in Requests : EvaluateRequest(req)

SpecEval == InitEval /\ [][NextEval]_vars

----------------------------------------------------------------------------
(* The builder under test: any sequence of calls on a BucketPolicyBuilder *)

BuilderVariants == {"framework", "noobaa_sa"}

StatementMethods == {"add_allow_statement", "add_deny_statement"}

PropertyMethods ==
    {"add_principal", "add_not_principal", "add_action", "add_not_action",
     "add_resource", "add_not_resource"}

\* The property a method hands to _update_property_on_last_statement
PropertyOf(method) ==
    CASE method = "add_principal" -> "Principal"
      [] method = "add_not_principal" -> "NotPrincipal"
      [] method = "add_action" -> "Action"
      [] method = "add_not_action" -> "NotAction"
      [] method = "add_resource" -> "Resource"
      [] method = "add_not_resource" -> "NotResource"

\* The statements after a call; the methods of noobaa_sa/bucket_policy.py are
\* for_principal, not_for_principal, on_action, not_for_action, with_resource
\* and not_on_resource
BuilderMethod(v, method, statements, value) ==
    CASE method = "add_allow_statement" -> add_allow_statement(statements)
      [] method = "add_deny_statement" -> add_deny_statement(statements)
      [] method \in PropertyMethods /\ v = "framework" ->
            BuilderCall(statements, PropertyOf(method), value)
      [] method = "add_principal" /\ v = "noobaa_sa" -> for_principal(statements, value)
      [] method = "add_not_principal" /\ v = "noobaa_sa" ->
            not_for_principal(statements, value)
      [] method = "add_action" /\ v = "noobaa_sa" -> on_action(statements, value)
      [] method = "add_not_action" /\ v = "noobaa_sa" -> not_for_action(statements, value)
      [] method = "add_resource" /\ v = "noobaa_sa" -> with_resource(statements, value)
      [] method = "add_not_resource" /\ v = "noobaa_sa" ->
            not_on_resource(statements, value)

PrincipalValues == {WILDCARD, <<"acc1">>}

ActionValues == {WILDCARD, <<"GetObject">>, <<ACTION_PREFIX, "GetObject">>}

ResourceValues == {WILDCARD, <<Bucket>>, <<RESOURCE_PREFIX, Bucket>>}

NoValue == <<>>

\* BucketPolicyBuilder(policy): a new policy, or one built before
InitialStatements(v) ==
    {<<>>, IF v = "framework" THEN default_template ELSE noobaa_sa_default_template}

InitBuilder ==
    /\ variant \in BuilderVariants
    /\ policy \in InitialStatements(variant)
    /\ before = policy
    /\ calls = <<>>
    /\ built = <<>>
    /\ objects = <<>>
    /\ UtilIdle
    /\ recipe = <<>>
    /\ evalReq = NoRequest
    /\ evalDecision = "None"
    /\ srv = [exists |-> TRUE, objects |-> {}, bucketPolicy |-> NoPolicy]
    /\ genCount = 0
    /\ pc = "idle"
    /\ chk = NoCheck
    /\ strategy = NoStrategy
    /\ response = NoResponse
    /\ pending = NoError
    /\ outcome = NoOutcome
    /\ trace = <<>>
    /\ probeCtx = srv

\* One call on the builder: it returns the builder, or raises ValueError
BuilderStep(method, value) ==
    /\ Len(calls) < MaxCalls
    /\ before' = policy
    /\ policy' = BuilderMethod(variant, method, policy, value)
    /\ calls' = Append(calls,
          [method |-> method, value |-> value,
           raised |-> IF method \in PropertyMethods /\ NoStatementToUpdate(policy)
                      THEN "ValueError" ELSE ""])
    /\ UNCHANGED <<utilVars, variant, built, objects, recipe, evalVars, checkVars>>

AddAllowStatement == BuilderStep("add_allow_statement", NoValue)

AddDenyStatement == BuilderStep("add_deny_statement", NoValue)

AddPrincipal == \E v \in PrincipalValues : BuilderStep("add_principal", v)

AddNotPrincipal == \E v \in PrincipalValues : BuilderStep("add_not_principal", v)

AddAction == \E v \in ActionValues : BuilderStep("add_action", v)

AddNotAction == \E v \in ActionValues : BuilderStep("add_not_action", v)

AddResource == \E v \in ResourceValues : BuilderStep("add_resource", v)

AddNotResource == \E v \in ResourceValues : BuilderStep("add_not_resource", v)

\* The BucketPolicy object the builder holds as self.policy
SelfPolicy == 0

build_returning_copy(statements, made) ==
    [ref |-> Len(made) + 1, objects |-> Append(made, statements)]

\* build(): the object returned and the objects there are afterwards
build(statements, made) == [ref |-> SelfPolicy, objects |-> made]

\* The statements seen through a reference to a BucketPolicy object
StatementsOf(ref) == IF ref = SelfPolicy THEN policy ELSE objects[ref]

Build ==
    /\ Len(calls) < MaxCalls
    /\ LET returned == build(policy, objects)
       IN /\ built' = Append(built, returned.ref)
          /\ objects' = returned.objects
    /\ before' = policy
    /\ calls' = Append(calls, [method |-> "build", value |-> NoValue, raised |-> ""])
    /\ UNCHANGED <<utilVars, variant, policy, recipe, evalVars, checkVars>>

NextBuilder ==
    \/ Build
    \/ AddAllowStatement
    \/ AddDenyStatement
    \/ AddPrincipal
    \/ AddNotPrincipal
    \/ AddAction
    \/ AddNotAction
    \/ AddResource
    \/ AddNotResource

SpecBuilder == InitBuilder /\ [][NextBuilder]_vars

----------------------------------------------------------------------------
(* Policies of the test scenarios *)

AllowAllOnBucketObjects ==
    StatementRecipe("Allow", "Principal", <<WILDCARD>>, "Action", <<WILDCARD>>,
                    "Resource", <<BucketObjects>>)

DenyAllOnObjA ==
    StatementRecipe("Deny", "Principal", <<WILDCARD>>, "Action", <<WILDCARD>>,
                    "Resource", <<ObjectPath("objA")>>)

AllowAllExceptAcc1 ==
    StatementRecipe("Allow", "NotPrincipal", <<(<<"acc1">>)>>, "Action", <<WILDCARD>>,
                    "Resource", <<BucketObjects>>)

AllowAllExceptObjA ==
    StatementRecipe("Allow", "Principal", <<WILDCARD>>, "Action", <<WILDCARD>>,
                    "NotResource", <<ObjectPath("objA")>>)

OnlyObjA(effect) ==
    StatementRecipe(effect, "Principal", <<WILDCARD>>, "Action", <<WILDCARD>>,
                    "Resource", <<ObjectPath("objA")>>)

Evaluated == evalReq # NoRequest

SomeDenyMatches ==
    \E i \in 1..Len(policy) :
        policy[i].Effect = "Deny" /\ StatementMatches(policy[i], evalReq)

SomeAllowMatches ==
    \E i \in 1..Len(policy) :
        policy[i].Effect = "Allow" /\ StatementMatches(policy[i], evalReq)

NoStatementMatches ==
    \A i \in 1..Len(policy) : ~StatementMatches(policy[i], evalReq)

C3_NotPrincipalComplement ==
    ( /\ Evaluated
      /\ recipe = <<AllowAllExceptAcc1>>
      /\ evalReq.op \in OBJECT_OPERATIONS )
    => /\ evalReq.principal = "acc1" => evalDecision = "Deny"
       /\ evalReq.principal \in OtherAccounts \ {"acc1"} => evalDecision = "Allow"

C3_Witness ==
    /\ recipe = <<AllowAllExceptAcc1>>
    /\ evalReq = [principal |-> "acc2", op |-> "GetObject", key |-> "objB"]
    /\ evalDecision = "Allow"

\* C4: when the only statement is Allow, Principal *, Action * with
\* NotResource = {bucket/objA}, a non-owner's GetObject on objA matches no
\* statement and is denied, and its GetObject on any other object is allowed.
C4_NotResourceComplement ==
    ( /\ Evaluated
      /\ recipe = <<AllowAllExceptObjA>>
      /\ evalReq.principal # Owner
      /\ evalReq.op = "GetObject" )
    => IF evalReq.key = "objA"
       THEN NoStatementMatches /\ evalDecision = "Deny"
       ELSE evalDecision = "Allow"

C4_Witness ==
    /\ recipe = <<AllowAllExceptObjA>>
    /\ evalReq = [principal |-> "acc1", op |-> "GetObject", key |-> "objA"]
    /\ evalDecision = "Deny"

\* C5: when the only statement names the single resource bucket/objA, a request
\* on another object matches no statement and gets the default decision; with
\* effect Allow, Principal *, Action * a non-owner is allowed GetObject and
\* DeleteObject on objA and denied both on objB.
C5_ResourceScoping ==
    ( /\ Evaluated
      /\ \E effect \in {"Allow", "Deny"} : recipe = <<OnlyObjA(effect)>>
      /\ evalReq.op \in {"GetObject", "DeleteObject"} )
    => /\ evalReq.key # "objA" =>
            NoStatementMatches /\ evalDecision = DefaultDecision(evalReq.principal)
       /\ (recipe = <<OnlyObjA("Allow")>> /\ evalReq.principal # Owner) =>
            evalDecision = IF evalReq.key = "objA" THEN "Allow" ELSE "Deny"

C5_Witness ==
    /\ recipe = <<OnlyObjA("Allow")>>
    /\ evalReq = [principal |-> "acc1", op |-> "DeleteObject", key |-> "objA"]
    /\ evalDecision = "Allow"

----------------------------------------------------------------------------
(* The access check *)

Done == pc = "done"

DefaultDenyOperations ==
    {"GetObject", "HeadObject", "PutObject", "CopyObject", "ListBucket",
     "DeleteObject", "DeleteBucket"}

NoStatementsAtProbe ==
    \/ ~probeCtx.bucketPolicy.present
    \/ from_json(probeCtx.bucketPolicy.doc).statements = <<>>

OperationAccessPolicyApplied(tested_op, access_effect) ==
    /\ recipe = OperationAccessRecipe(tested_op, access_effect)
    /\ probeCtx.exists
    /\ probeCtx.bucketPolicy = [present |-> TRUE, doc |-> PolicyToStr(policy)]

CallCount(name) == Cardinality({i \in DOMAIN trace : trace[i] = Call(name)})

ProbeRequests == {i \in DOMAIN trace : trace[i].kind = "request" /\ trace[i].name = "probe"}

AccessCodes(op) ==
    {IntCode(expected_success_code(op)), StrCode("AccessDenied"), IntCode(403)}

PhaseRank(e) ==
    LET phase == IF e.kind = "call"
                 THEN (IF e.name = "do_operation" THEN "probe" ELSE e.name)
                 ELSE e.name
    IN CASE phase = "setup" -> 1 [] phase = "probe" -> 2 [] phase = "cleanup" -> 3

PriorPolicyState == probeCtx.bucketPolicy

StrategyErrors == {"TypeError", "AttributeError"}

StrategyClassOf(op) == op \o "ValidationStrategy"

OtherBuckets == {"b2"}

C13_UnsupportedOperation ==
    (pc # "idle" /\ chk.op \notin SupportedOperations) =>
        /\ Done
        /\ outcome = RaisedOutcome(NotImplementedError(chk.op))
        /\ strategy = NoStrategy
        /\ trace = <<>>
        /\ srv = probeCtx

C13_Witness ==
    /\ Done
    /\ chk.op = "HeadBucket"
    /\ outcome.state = "raised"
    /\ outcome.error.operation = "HeadBucket"
    /\ srv.objects # {}

DeleteOperations == {"DeleteObject", "DeleteBucket", "DeleteBucketPolicy"}

\* C14: for the operation of any check, expected_success_code is 204 when
\* the operation is DeleteObject, DeleteBucket or DeleteBucketPolicy and 200
\* otherwise, in every variant of the strategy classes that has a strategy
\* for the operation.
C14_ExpectedSuccessCodes ==
    LET op == chk.op
        claimed == IF op \in DeleteOperations THEN 204 ELSE 200
    IN (pc # "idle" /\ op \in SupportedOperations) =>
          /\ expected_success_code(op) = claimed
          /\ op \in DOMAIN tests_expected_success_code =>
                tests_expected_success_code[op] = claimed
          /\ op \in DOMAIN tester_expected_success_code =>
                tester_expected_success_code[op] = claimed

SetupRequests == {i \in DOMAIN trace : trace[i].kind = "request" /\ trace[i].name = "setup"}

LastCall == calls[Len(calls)]

Called == calls # <<>>

\* C16: a call of add_principal, add_not_principal, add_action,
\* add_not_action, add_resource or add_not_resource (and of their earlier
\* namesakes) on a builder whose policy has no statement raises ValueError
\* and leaves the policy with no statement; with a statement it does not raise.
C16_BuilderError ==
    (Called /\ LastCall.method \in PropertyMethods) =>
        IF before = <<>>
        THEN LastCall.raised = "ValueError" /\ policy = <<>>
        ELSE LastCall.raised = ""

C16_Witness ==
    /\ Called
    /\ variant = "framework"
    /\ LastCall = [method |-> "add_not_resource", value |-> <<Bucket>>, raised |-> "ValueError"]
    /\ before = <<>>
    /\ policy = <<>>

\* The prefix-assuring function of the builder under test
AssurePrefix(property, value) ==
    IF variant = "framework" THEN _assure_prefix(property, value)
    ELSE noobaa_sa_assure_prefix(property, value)

KindPrefix(property) ==
    IF property \in ActionProperties THEN ACTION_PREFIX ELSE RESOURCE_PREFIX

\* Strings besides the ones the calls pass: the empty string, a bare
\* prefix, a doubled prefix
PrefixProbeStrings ==
    ActionValues \cup ResourceValues
    \cup {<<>>, <<ACTION_PREFIX>>, <<RESOURCE_PREFIX>>,
          <<ACTION_PREFIX, ACTION_PREFIX, "GetObject">>}

IdempotentOn(property, v) ==
    /\ AssurePrefix(property, AssurePrefix(property, v)) = AssurePrefix(property, v)
    /\ StartsWith(v, KindPrefix(property)) => AssurePrefix(property, v) = v

\* C17: for an action field (prefix "s3:") and a resource field (prefix
\* "arn:aws:s3:::") alike, assuring the prefix of an already assured value
\* changes nothing, and a value that starts with the prefix comes back as it
\* is: for the value of every call made and for the other strings.
C17_IdempotentPrefixing ==
    /\ \A property \in {"Action", "Resource"}, v \in PrefixProbeStrings :
          IdempotentOn(property, v)
    /\ (Called /\ LastCall.method \in {"add_action", "add_resource"}) =>
          IdempotentOn(PropertyOf(LastCall.method), LastCall.value)

C17_Witness ==
    /\ Called
    /\ LastCall = [method |-> "add_action", value |-> <<ACTION_PREFIX, "GetObject">>,
                   raised |-> ""]
    /\ variant = "framework"
    /\ policy[Len(policy)].Action = <<(<<ACTION_PREFIX, "GetObject">>)>>

\* The strings a statement holds under a field
StoredValues(st, field) ==
    IF field \notin DOMAIN st THEN {}
    ELSE IF variant = "framework" THEN SeqRange(st[field])
    ELSE SeqRange(st[field].val)

\* C18: after any calls on the builder every string under Action or
\* NotAction of any statement starts with "s3:" and every string under
\* Resource or NotResource starts with "arn:aws:s3:::".
C18_PrefixInvariant ==
    \A i \in DOMAIN policy :
        /\ \A f \in ActionProperties : \A v \in StoredValues(policy[i], f) :
              StartsWith(v, ACTION_PREFIX)
        /\ \A f \in ResourceProperties : \A v \in StoredValues(policy[i], f) :
              StartsWith(v, RESOURCE_PREFIX)

\* C19: a call of add_principal, add_not_principal, add_action,
\* add_not_action, add_resource or add_not_resource leaves the number of
\* statements and every statement but the last as they were, and in the last
\* statement changes the field it names and no other (Effect included).
C19_LastStatementOnly ==
    (Called /\ variant = "framework" /\ LastCall.method \in PropertyMethods) =>
        LET n == Len(before)
            property == PropertyOf(LastCall.method)
        IN /\ Len(policy) = n
           /\ \A i \in 1..(n - 1) : policy[i] = before[i]
           /\ n > 0 =>
                 /\ DOMAIN policy[n] = DOMAIN before[n] \cup {property}
                 /\ \A k \in DOMAIN before[n] \ {property} : policy[n][k] = before[n][k]
                 /\ policy[n] # before[n]

C19_Witness ==
    /\ Called
    /\ variant = "framework"
    /\ LastCall.method = "add_not_action"
    /\ Len(policy) = 2
    /\ policy[1] = default_template[1]
    /\ DOMAIN policy[2] = {"Effect", "Principal", "NotAction"}
    /\ DOMAIN before[2] = {"Effect", "Principal"}

\* C20: add_not_principal(id) puts id last under NotPrincipal of the last
\* statement and leaves that statement's Principal field as it was: absent
\* when it was absent.
C20_NotPrincipalOwnField ==
    (Called /\ LastCall.method = "add_not_principal" /\ before # <<>>) =>
        LET n == Len(policy)
        IN /\ "NotPrincipal" \in DOMAIN policy[n]
           /\ "Principal" \in DOMAIN policy[n] <=> "Principal" \in DOMAIN before[n]
           /\ "Principal" \in DOMAIN policy[n] => policy[n].Principal = before[n].Principal
           /\ LET ids == policy[n].NotPrincipal.AWS
              IN variant = "framework" => ids[Len(ids)] = LastCall.value

\* The list a statement of the framework builder holds for a property
FieldList(st, property) ==
    IF property \in PrincipalProperties
    THEN DictGet(DictGet(st, property, EmptyDict), "AWS", <<>>)
    ELSE DictGet(st, property, <<>>)

\* The index of the call that started the last statement; 0 when the
\* statement was there before the first call
LastStatementStart ==
    LET starts == {i \in DOMAIN calls : calls[i].method \in StatementMethods}
    IN IF starts = {} THEN 0 ELSE CHOOSE i \in starts : \A j \in starts : j <= i

\* The values the calls since then have added for a property, in call order
ValuesSince(property) ==
    LET since == SubSeq(calls, LastStatementStart + 1, Len(calls))
        mine(c) == c.method \in PropertyMethods /\ PropertyOf(c.method) = property
                   /\ c.raised = ""
        own == SelectSeq(since, mine)
    IN [i \in 1..Len(own) |-> _assure_prefix(property, own[i].value)]

AllProperties == PrincipalProperties \cup ActionProperties \cup ResourceProperties

\* C21: the n >= 2 values that calls of one add_* method gave to a statement
\* are the last n items, in call order, of the one list under that field
\* (the whole list when the calls began the statement), and none of these
\* calls adds a statement.
C21_MultiValueFields ==
    (variant = "framework" /\ policy # <<>>) =>
        /\ \A property \in AllProperties :
              LET vs == ValuesSince(property)
                  l == FieldList(policy[Len(policy)], property)
              IN Len(vs) >= 2 =>
                    /\ Len(l) >= Len(vs)
                    /\ SubSeq(l, Len(l) - Len(vs) + 1, Len(l)) = vs
                    /\ LastStatementStart > 0 => l = vs
        /\ (Called /\ LastCall.method \in PropertyMethods) => Len(policy) = Len(before)

C21_Witness ==
    /\ variant = "framework"
    /\ Len(calls) = 3
    /\ calls[1].method = "add_allow_statement"
    /\ calls[2] = [method |-> "add_principal", value |-> <<"acc1">>, raised |-> ""]
    /\ calls[3] = [method |-> "add_principal", value |-> WILDCARD, raised |-> ""]
    /\ policy = <<[Effect |-> "Allow", Principal |-> [AWS |-> <<(<<"acc1">>), WILDCARD>>]]>>

\* What a statement of the builder under test holds for a property, as
\* [present, type, val]: type "str" with val the one bare string, or type
\* "list" with val the items.  The earlier builder keeps the values of
\* Principal and of NotPrincipal alike under Principal.AWS.
StoredField(st, property) ==
    LET absent == [present |-> FALSE, type |-> "", val |-> <<>>]
        held(x) == [present |-> TRUE, type |-> x.type, val |-> x.val]
    IN IF variant = "framework"
       THEN IF property \in DOMAIN st /\ FieldList(st, property) # <<>>
            THEN [present |-> TRUE, type |-> "list", val |-> FieldList(st, property)]
            ELSE absent
       ELSE IF property \in PrincipalProperties
            THEN IF "Principal" \in DOMAIN st /\ "AWS" \in DOMAIN st.Principal
                 THEN held(st.Principal.AWS) ELSE absent
            ELSE IF property \in DOMAIN st THEN held(st[property]) ELSE absent

PropertyCallMade == Called /\ LastCall.method \in PropertyMethods /\ LastCall.raised = ""

\* C22 as claimed: the first value of a field is stored bare, and the
\* second value turns the field into the list of the two.
C22_ScalarPromotion ==
    PropertyCallMade =>
        LET n == Len(policy)
            property == PropertyOf(LastCall.method)
            v == AssurePrefix(property, LastCall.value)
            old == StoredField(before[n], property)
            new == StoredField(policy[n], property)
        IN /\ ~old.present => new = [present |-> TRUE, type |-> "str", val |-> <<v>>]
           /\ (old.present /\ Len(old.val) = 1) =>
                 new = [present |-> TRUE, type |-> "list", val |-> <<old.val[1], v>>]

\* C22 as amended: the builder of noobaa_sa/bucket_policy.py stores the
\* first value of a field bare and the second value turns the field into
\* the list [first, second]; the builder of framework/bucket_policies keeps
\* a list from the first value on: [first], then [first, second].  Either
\* way every later value is appended.
C22_FirstValueThenList ==
    PropertyCallMade =>
        LET n == Len(policy)
            property == PropertyOf(LastCall.method)
            v == AssurePrefix(property, LastCall.value)
            old == StoredField(before[n], property)
            new == StoredField(policy[n], property)
        IN /\ ~old.present =>
                 new = [present |-> TRUE,
                        type |-> IF variant = "framework" THEN "list" ELSE "str",
                        val |-> <<v>>]
           /\ old.present =>
                 new = [present |-> TRUE, type |-> "list", val |-> Append(old.val, v)]
           /\ (variant = "framework" /\ old.present) => old.type = "list"

C22_Witness ==
    /\ variant = "noobaa_sa"
    /\ PropertyCallMade
    /\ LastCall.method = "add_action"
    /\ StoredField(before[Len(before)], "Action") =
          [present |-> TRUE, type |-> "str", val |-> <<(<<ACTION_PREFIX, "GetObject">>)>>]
    /\ StoredField(policy[Len(policy)], "Action") =
          [present |-> TRUE, type |-> "list",
           val |-> <<(<<ACTION_PREFIX, "GetObject">>), <<ACTION_PREFIX, "*">> >>]

\* C23: for every policy the framework builder has built, by any sequence
\* of calls, BucketPolicy.from_json(str(policy)) has the Version of the
\* policy and its Statement list: the same statements in the same order,
\* each with the same fields and values.
C23_RoundTrip ==
    variant = "framework" =>
        LET built_policy == NewBucketPolicy(policy)
            read_back == from_json(BucketPolicyStr(built_policy))
        IN /\ read_back.version = built_policy.version
           /\ read_back.statements = built_policy.statements
           /\ as_dict(read_back.version, read_back.statements) = json_loads(PolicyToStr(policy))

C23_Witness ==
    /\ variant = "framework"
    /\ Len(calls) = MaxCalls
    /\ Len(policy) = 2
    /\ "NotPrincipal" \in DOMAIN policy[2]
    /\ Len(FieldList(policy[2], "NotPrincipal")) = 2
    /\ from_json(PolicyToStr(policy)).statements = policy

\* C24: build() does not freeze the builder.  Every build() call on the
\* builder returns the same BucketPolicy object, the statements and values
\* added after a build() are seen through the object that build() returned,
\* and the calls made after a build() act as they do before one.
C24_BuildDoesNotFreeze ==
    /\ \A i \in 1..Len(built) :
          /\ built[i] = built[1]
          /\ StatementsOf(built[i]) = policy
    /\ (Called /\ LastCall.method # "build") =>
          policy = BuilderMethod(variant, LastCall.method, before, LastCall.value)

C24_Witness ==
    /\ Len(calls) = 3
    /\ calls[1].method = "build"
    /\ calls[2].method = "add_deny_statement"
    /\ calls[3].method = "build"
    /\ Len(built) = 2
    /\ built[1] = built[2]
    /\ StatementsOf(built[1]) = policy
    /\ policy[Len(policy)] = [Effect |-> "Deny"]

\* default_template() of the builder class under test
DefaultTemplateOf(v) ==
    IF v = "framework" THEN default_template ELSE noobaa_sa_default_template

\* The one value a field holds, bare or as the only item of a list
HoldsOnly(st, property, value) ==
    /\ StoredField(st, property).present
    /\ StoredField(st, property).val = <<value>>

\* C25: default_template() returns a policy with exactly one statement:
\* Effect Deny, Principal the wildcard for every principal, the single
\* Action s3:GetObject, Resource the wildcard for every resource, and no
\* NotPrincipal, NotAction or NotResource field.
C25_DefaultTemplate ==
    LET template == DefaultTemplateOf(variant)
    IN /\ Len(template) = 1
       /\ template[1].Effect = "Deny"
       /\ DOMAIN template[1] = {"Effect", "Principal", "Action", "Resource"}
       /\ DOMAIN template[1].Principal = {"AWS"}
       /\ HoldsOnly(template[1], "Principal", <<"*">>)
       /\ HoldsOnly(template[1], "Action", <<"s3:", "GetObject">>)
       /\ HoldsOnly(template[1], "Resource", <<"arn:aws:s3:::", "*">>)
       /\ (calls = <<>> /\ policy # <<>>) => policy = template

C25_Witness ==
    /\ calls = <<>>
    /\ variant = "noobaa_sa"
    /\ policy = noobaa_sa_default_template
    /\ Len(policy) = 1
    /\ policy[1].Effect = "Deny"

----------------------------------------------------------------------------
(* Operations with overlapping permissions, and step 6 of
   test_operation_access_policies, which checks the operations without *)

\* The builder, the evaluator and the access tester at rest
ProgramIdle ==
    /\ variant = "framework"
    /\ policy = <<>>
    /\ before = <<>>
    /\ calls = <<>>
    /\ built = <<>>
    /\ objects = <<>>
    /\ recipe = <<>>
    /\ evalReq = NoRequest
    /\ evalDecision = "None"
    /\ srv = [exists |-> TRUE, objects |-> {}, bucketPolicy |-> NoPolicy]
    /\ genCount = 0
    /\ pc = "idle"
    /\ chk = NoCheck
    /\ strategy = NoStrategy
    /\ response = NoResponse
    /\ pending = NoError
    /\ outcome = NoOutcome
    /\ trace = <<>>
    /\ probeCtx = srv

\* overlap_map of BucketPolicy.get_ops_with_perm_overlap
overlap_map ==
    [HeadObject |-> <<"GetObject">>,
     GetObject |-> <<"HeadObject", "CopyObject">>,
     CopyObject |-> <<"GetObject", "PutObject">>,
     PutObject |-> <<"CopyObject">>]

get_ops_with_perm_overlap(operation) ==
    DictGet(overlap_map, operation, <<>>) \o <<operation>>

\* other_ops of get_other_ops_for_permission_testing
base_other_ops ==
    <<"GetObject", "PutObject", "DeleteObject", "CopyObject", "PutBucketPolicy", "ListBucket">>

\* overlap_map of get_other_ops_for_permission_testing
tests_overlap_map ==
    [HeadObject |-> <<"GetObject">>,
     GetObject |-> <<"HeadObject", "CopyObject">>,
     CopyObject |-> <<"GetObject", "PutObject">>,
     PutObject |-> <<"CopyObject">>]

Items(list) == {list[i] : i \in 1..Len(list)}

get_other_ops_keeping_overlap(operation) ==
    SelectSeq(base_other_ops, LAMBDA op : op # operation)

get_other_ops_for_permission_testing(operation) ==
    SelectSeq(base_other_ops,
              LAMBDA op : /\ op # operation
                          /\ op \notin Items(DictGet(tests_overlap_map, operation, <<>>)))

\* The operations a policy can be about
Operations == BUCKET_OPERATIONS \cup OBJECT_OPERATIONS

InitOps ==
    /\ ProgramIdle
    /\ RetryIdle
    /\ SshIdle
    /\ ops_pc = "start"
    /\ tested_operation \in Operations
    /\ other_ops = <<>>
    /\ overlap_ops = <<>>
    /\ op_index = 0

OpsUnchanged == UNCHANGED <<recipe, policy, evalVars, checkVars, builderVars, retryVars, sshVars>>

\* other_ops = get_other_ops_for_permission_testing(tested_op)
GetOtherOps ==
    /\ ops_pc = "start"
    /\ other_ops' = get_other_ops_for_permission_testing(tested_operation)
    /\ ops_pc' = "loop"
    /\ UNCHANGED <<tested_operation, overlap_ops, op_index>>
    /\ OpsUnchanged

\* for other_op in other_ops: one pass of the loop
CheckOtherOp ==
    /\ ops_pc = "loop"
    /\ op_index < Len(other_ops)
    /\ op_index' = op_index + 1
    /\ UNCHANGED <<ops_pc, tested_operation, other_ops, overlap_ops>>
    /\ OpsUnchanged

EndOfOtherOps ==
    /\ ops_pc = "loop"
    /\ op_index = Len(other_ops)
    /\ ops_pc' = "done"
    /\ UNCHANGED <<tested_operation, other_ops, overlap_ops, op_index>>
    /\ OpsUnchanged

GetOpsWithPermOverlap ==
    /\ ops_pc # "idle"
    /\ overlap_ops = <<>>
    /\ overlap_ops' = get_ops_with_perm_overlap(tested_operation)
    /\ UNCHANGED <<ops_pc, tested_operation, other_ops, op_index>>
    /\ OpsUnchanged

NextOps ==
    \/ GetOtherOps
    \/ CheckOtherOp
    \/ EndOfOtherOps
    \/ GetOpsWithPermOverlap

SpecOps == InitOps /\ [][NextOps]_vars

\* The overlap sets as the specification lists them
ListedOverlap(operation) ==
    CASE operation = "HeadObject" -> {"GetObject"}
      [] operation = "GetObject" -> {"HeadObject", "CopyObject"}
      [] operation = "CopyObject" -> {"GetObject", "PutObject"}
      [] operation = "PutObject" -> {"CopyObject"}
      [] OTHER -> {}

\* C26: for every operation X, get_other_ops_for_permission_testing(X)
\* contains neither X nor an operation of X's overlap set; the result for
\* CopyObject has neither GetObject nor PutObject.
C26_OverlapExclusion ==
    ops_pc \in {"loop", "done"} =>
        /\ tested_operation \notin Items(other_ops)
        /\ Items(other_ops) \cap ListedOverlap(tested_operation) = {}
        /\ Items(other_ops) \cap Items(get_ops_with_perm_overlap(tested_operation)) = {}
        /\ overlap_ops # <<>> => Items(other_ops) \cap Items(overlap_ops) = {}
        /\ tested_operation = "CopyObject" =>
              ("GetObject" \notin Items(other_ops) /\ "PutObject" \notin Items(other_ops))

C26_Witness ==
    /\ ops_pc = "done"
    /\ tested_operation = "CopyObject"
    /\ other_ops = <<"DeleteObject", "PutBucketPolicy", "ListBucket">>
    /\ overlap_ops = <<"GetObject", "PutObject", "CopyObject">>
    /\ op_index = 3

----------------------------------------------------------------------------
(* retry_until_timeout(func, timeout, interval) of utility/retry.py.  Time is
   counted in whole seconds; a call of func takes 0..MaxDuration of them and
   either returns a value or raises an exception. *)

Timeouts == 0..MaxTimeout

Intervals == 1..MaxInterval

Durations == 0..MaxDuration

\* What func can raise (get_system_json over SSH) and what it can return
FuncExceptions == {"FileNotFoundError", "SSHException"}

FuncValues == {"system.json"}

InitRetry ==
    /\ ProgramIdle
    /\ OpsIdle
    /\ SshIdle
    /\ retry_pc = "call"
    /\ timeout \in Timeouts
    /\ interval \in Intervals
    /\ start_time \in {0, 1}
    /\ now = start_time
    /\ elapsed_time = now - start_time
    /\ attempts = <<>>
    /\ retry_outcome = NoAttemptOutcome

RetryUnchanged == UNCHANGED <<recipe, policy, evalVars, checkVars, builderVars, opsVars, sshVars>>

\* return func(*args, **kwargs), func returning
FuncReturns ==
    /\ retry_pc = "call"
    /\ \E d \in Durations, v \in FuncValues :
          /\ now' = now + d
          /\ attempts' = Append(attempts,
                [began |-> now, ended |-> now + d, raised |-> "", value |-> v])
          /\ retry_outcome' = [raised |-> "", value |-> v]
    /\ retry_pc' = "returned"
    /\ UNCHANGED <<timeout, interval, start_time, elapsed_time>>
    /\ RetryUnchanged

\* func raising: control goes to the except clause
FuncRaises ==
    /\ retry_pc = "call"
    /\ \E d \in Durations, e \in FuncExceptions :
          /\ now' = now + d
          /\ attempts' = Append(attempts,
                [began |-> now, ended |-> now + d, raised |-> e, value |-> ""])
    /\ retry_pc' = "except"
    /\ UNCHANGED <<timeout, interval, start_time, elapsed_time, retry_outcome>>
    /\ RetryUnchanged

first_exception(calls_of_func) == calls_of_func[1].raised

\* e of "except Exception as e": the exception of the call that just raised
caught_exception(calls_of_func) == calls_of_func[Len(calls_of_func)].raised

\* if elapsed_time > timeout: raise e
ExceptTimedOut ==
    /\ retry_pc = "except"
    /\ elapsed_time > timeout
    /\ retry_outcome' = [raised |-> caught_exception(attempts), value |-> ""]
    /\ retry_pc' = "raised"
    /\ UNCHANGED <<timeout, interval, start_time, now, elapsed_time, attempts>>
    /\ RetryUnchanged

\* else: elapsed_time = time.time() - start_time
ExceptRetry ==
    /\ retry_pc = "except"
    /\ ~(elapsed_time > timeout)
    /\ elapsed_time' = now - start_time
    /\ retry_pc' = "sleep"
    /\ UNCHANGED <<timeout, interval, start_time, now, attempts, retry_outcome>>
    /\ RetryUnchanged

\* time.sleep(interval), then the next pass of while True
Sleep ==
    /\ retry_pc = "sleep"
    /\ now' = now + interval
    /\ retry_pc' = "call"
    /\ UNCHANGED <<timeout, interval, start_time, elapsed_time, attempts, retry_outcome>>
    /\ RetryUnchanged

NextRetry ==
    \/ FuncReturns
    \/ FuncRaises
    \/ ExceptTimedOut
    \/ ExceptRetry
    \/ Sleep

SpecRetry == InitRetry /\ [][NextRetry]_vars

\* The one thread that runs retry_until_timeout keeps running, and every
\* call of func comes back.
SpecRetryFair == SpecRetry /\ WF_vars(NextRetry)

RetryOver == retry_pc \in {"returned", "raised"}

\* The first call of func that does not raise is the last call made, and
\* its value is what retry_until_timeout returns.
ReturnsFirstValue ==
    /\ \A i \in 1..Len(attempts) :
          attempts[i].raised = "" =>
              /\ i = Len(attempts)
              /\ retry_pc = "returned"
              /\ retry_outcome = [raised |-> "", value |-> attempts[i].value]
    /\ retry_pc = "returned" =>
          (attempts # <<>> /\ attempts[Len(attempts)].raised = "")

\* What is raised is the exception of the last call, after every call raised.
ReraisesLastException ==
    retry_pc = "raised" =>
        /\ attempts # <<>>
        /\ \A i \in 1..Len(attempts) : attempts[i].raised # ""
        /\ retry_outcome = [raised |-> attempts[Len(attempts)].raised, value |-> ""]

C29_NoAttemptAfterTimeout ==
    \A i \in 1..Len(attempts) :
        (attempts[i].raised # "" /\ attempts[i].ended - start_time > timeout) =>
            /\ i = Len(attempts)
            /\ retry_pc \in {"except", "raised"}

----------------------------------------------------------------------------
(* SSHConnectionManager of framework/ssh_connection_manager.py.  Manager
   objects and connections are numbered in the order they are made; 0 stands
   for None. *)

\* What Connection(...) can raise
ConnectionExceptions == {"AuthenticationException", "SSHException"}

InitSSH ==
    /\ ProgramIdle
    /\ OpsIdle
    /\ RetryIdle
    /\ SshIdle

SSHUnchanged == UNCHANGED <<recipe, policy, evalVars, checkVars, builderVars, opsVars, retryVars>>

\* __new__: the object SSHConnectionManager() is, and the objects there are
\* afterwards
__new__(instance, managers) ==
    IF instance = 0
    THEN [instance |-> Len(managers) + 1, managers |-> Append(managers, 0)]
    ELSE [instance |-> instance, managers |-> managers]

\* __init__(self): self._conn = None
__init__(self, managers) == [managers EXCEPT ![self] = 0]

\* SSHConnectionManager(): __new__, then __init__ on what it returned
Construct ==
    /\ ssh_instance # 0 \/ Len(ssh_managers) < MaxManagers
    /\ LET made == __new__(ssh_instance, ssh_managers)
       IN /\ ssh_instance' = made.instance
          /\ ssh_managers' = __init__(made.instance, made.managers)
          /\ ssh_held' = made.instance
    /\ UNCHANGED <<ssh_opened, ssh_closed, ssh_reads>>
    /\ SSHUnchanged

\* .connection with self._conn set: return self._conn
ReadOpenConnection ==
    /\ ssh_held # 0
    /\ ssh_managers[ssh_held] # 0
    /\ Len(ssh_reads) < MaxReads
    /\ ssh_reads' = Append(ssh_reads,
          [conn |-> ssh_managers[ssh_held], opened |-> FALSE, raised |-> ""])
    /\ UNCHANGED <<ssh_instance, ssh_managers, ssh_held, ssh_opened, ssh_closed>>
    /\ SSHUnchanged

\* .connection with self._conn None: self._conn = Connection(...)
OpenConnection ==
    /\ ssh_held # 0
    /\ ssh_managers[ssh_held] = 0
    /\ Len(ssh_reads) < MaxReads
    /\ ssh_opened < MaxConnections
    /\ ssh_opened' = ssh_opened + 1
    /\ ssh_managers' = [ssh_managers EXCEPT ![ssh_held] = ssh_opened + 1]
    /\ ssh_reads' = Append(ssh_reads,
          [conn |-> ssh_opened + 1, opened |-> TRUE, raised |-> ""])
    /\ UNCHANGED <<ssh_instance, ssh_held, ssh_closed>>
    /\ SSHUnchanged

\* .connection with self._conn None and Connection(...) raising
OpenConnectionFails ==
    /\ ssh_held # 0
    /\ ssh_managers[ssh_held] = 0
    /\ Len(ssh_reads) < MaxReads
    /\ \E e \in ConnectionExceptions :
          ssh_reads' = Append(ssh_reads, [conn |-> 0, opened |-> FALSE, raised |-> e])
    /\ UNCHANGED <<ssh_instance, ssh_managers, ssh_held, ssh_opened, ssh_closed>>
    /\ SSHUnchanged

\* close_connection(): closes the connection of the instance, if there is
\* one of each, and forgets the instance.  The manager objects the callers
\* got are temporaries: none outlives the call.
CloseConnection ==
    /\ IF ssh_instance # 0 /\ ssh_managers[ssh_instance] # 0
       THEN /\ ssh_closed' = ssh_closed \cup {ssh_managers[ssh_instance]}
            /\ ssh_instance' = 0
       ELSE UNCHANGED <<ssh_closed, ssh_instance>>
    /\ ssh_held' = 0
    /\ ssh_reads' = <<>>
    /\ UNCHANGED <<ssh_managers, ssh_opened>>
    /\ SSHUnchanged

NextSSH ==
    \/ Construct
    \/ ReadOpenConnection
    \/ OpenConnection
    \/ OpenConnectionFails
    \/ CloseConnection

SpecSSH == InitSSH /\ [][NextSSH]_vars

\* C30: across the constructions of SSHConnectionManager and the reads of
\* .connection made since the last close_connection, at most one
\* Connection is opened and every read returns that same connection.
C30_SingleConnection ==
    /\ Cardinality({i \in 1..Len(ssh_reads) : ssh_reads[i].opened}) <= 1
    /\ Cardinality({ssh_reads[i].conn : i \in {j \in 1..Len(ssh_reads) : ssh_reads[j].raised = ""}}) <= 1

====
